---- MODULE Spec2Model ----
(***************************************************************************)
(* A model of src/main.ts of space-museum: the startup script that builds  *)
(* the Earth scene, the per-frame callback tick, the resize listener, the  *)
(* texture loads and the star field generator makeStarField.               *)
(*                                                                         *)
(* Numbers.  Time is counted in whole seconds and angles and opacities in  *)
(* hundredths, so that t * 0.08 is EarthSpeed * t with EarthSpeed = 8;     *)
(* the clock is read at multiples of TimeStep seconds.                     *)
(* Ratios (the camera aspect, the pixel ratio) are exact fractions         *)
(* <<numerator, denominator>> in lowest terms.  Star coordinates are       *)
(* integers: one unit is the spacing of the values the position buffer     *)
(* can hold, and storing a coordinate rounds it to the nearest of them.    *)
(***************************************************************************)
EXTENDS Integers, Sequences, FiniteSets, TLC

VARIABLES
    pc,          \* position of the startup script, or where it ended
    win,         \* window.innerWidth, innerHeight, devicePixelRatio
    renderer,    \* the WebGLRenderer's size and pixel ratio
    camera,      \* the PerspectiveCamera's aspect
    tex,         \* per texture: the state of its load
    scene,       \* the children of the scene, in insertion order
    earth,       \* the Earth mesh
    nightMesh,   \* the night-lights mesh, or Null
    clouds,      \* the cloud mesh, or Null
    atmosphere,  \* the atmosphere mesh, or Null before composition
    clock,       \* the THREE.Clock
    rafPending,  \* callbacks registered with requestAnimationFrame, not yet run
    listener,    \* whether the resize listener is registered
    frameFailed, \* whether some invocation of tick has thrown
    last,        \* what the handler that ran last did
    opts,        \* makeStarField: its argument
    positions,   \* makeStarField: the position buffer
    i,           \* makeStarField: the loop counter
    written      \* makeStarField: the slots of the buffer assigned so far

vars == <<pc, win, renderer, camera, tex, scene, earth, nightMesh, clouds,
          atmosphere, clock, rafPending, listener, frameFailed, last,
          opts, positions, i, written>>

sceneVars == <<scene, earth, nightMesh, clouds, atmosphere>>
starVars == <<opts, positions, i, written>>

(***************************************************************************)
(* Bounds of the model.                                                    *)
(***************************************************************************)
MaxDim == 2      \* window widths and heights are 1..MaxDim
TimeStep == 5    \* clock readings are multiples of TimeStep seconds
MaxSteps == 2    \* clock readings are at most MaxSteps * TimeStep seconds
MaxCount == 2    \* makeStarField: count is 1..MaxCount
MaxRadius == 2   \* makeStarField: radius is 0..MaxRadius
MaxDepth == 2    \* makeStarField: depth is 0..MaxDepth

(***************************************************************************)
(* Program constants.                                                      *)
(***************************************************************************)
PixelRatioCap == 2        \* Math.min(window.devicePixelRatio, 2)
EarthSpeed == 8           \* t * 0.08, in hundredths
CloudsSpeed == 11         \* t * 0.11, in hundredths
NightOpacity == 60        \* opacity = 0.6, in hundredths
DefaultOpacity == 100     \* a material's opacity when none is given
CloudsOpacity == 75       \* opacity: 0.75
AtmosphereOpacity == 8    \* opacity: 0.08
DefaultRenderOrder == 0   \* earth sets no renderOrder
NightRenderOrder == 1
CloudsRenderOrder == 2
AtmosphereRenderOrder == 3

Null == [null |-> TRUE]

Dims == 1..MaxDim
\* devicePixelRatio: 1, 3/2 and 3
DprValues == {<<1, 1>>, <<3, 2>>, <<3, 1>>}
Times == {TimeStep * k : k \in 0..MaxSteps}

Required == "day"
Optional == {"normal", "specular", "night", "clouds"}
TexNames == {Required} \cup Optional
\* the loads whose outcomes are followed: those of the textures that the
\* script reads again after building the Earth material.  The loads of the
\* normal and specular maps are issued and stay in flight.
Followed == {"day", "night", "clouds"}

(***************************************************************************)
(* Arithmetic.                                                             *)
(***************************************************************************)
RECURSIVE Gcd(_, _)
Gcd(a, b) == IF b = 0 THEN a ELSE Gcd(b, a % b)

\* a / b for positive integers, as a fraction in lowest terms
Divide(a, b) == <<a \div Gcd(a, b), b \div Gcd(a, b)>>

\* Math.min of two fractions
MinRatio(p, q) == IF p[1] * q[2] <= q[1] * p[2] THEN p ELSE q

(***************************************************************************)
(* The startup script, lines 13-47: renderer, camera, controls, lights.    *)
(***************************************************************************)
ClampedPixelRatio(dpr) == MinRatio(dpr, <<PixelRatioCap, 1>>)

Aspect(w, h) == Divide(w, h)

NewRenderer(w) ==
    [width |-> w.w, height |-> w.h, pixelRatio |-> ClampedPixelRatio(w.dpr)]

NewCamera(w) == [aspect |-> Aspect(w.w, w.h)]

Idle == [kind |-> "none", draws |-> 0, rafCalls |-> 0, updates |-> 0,
         opacityWrites |-> 0, threw |-> FALSE]

StarsIdle ==
    /\ opts = [count |-> 0, radius |-> 0, depth |-> 0]
    /\ positions = <<>>
    /\ i = 0
    /\ written = {}

MainInit(windows) ==
    /\ win \in windows
    /\ renderer = NewRenderer(win)
    /\ camera = NewCamera(win)
    /\ tex = [n \in TexNames |-> "none"]
    /\ scene = <<"sun", "ambient">>
    /\ earth = Null
    /\ nightMesh = Null
    /\ clouds = Null
    /\ atmosphere = Null
    /\ clock = [running |-> FALSE, elapsedTime |-> 0]
    /\ rafPending = 0
    /\ listener = FALSE
    /\ frameFailed = FALSE
    /\ last = Idle

Windows == [w : Dims, h : Dims, dpr : DprValues]

Init ==
    /\ pc = "textures"
    /\ MainInit(Windows)
    /\ StarsIdle

(***************************************************************************)
(* Textures, lines 50-60.  loader.load returns a texture at once and the   *)
(* image arrives, or fails to, in a later task.  thrown is the set of      *)
(* loads whose call throws; tryLoad turns a throw into null, the load of   *)
(* the day map lets it escape, which ends the script.                      *)
(***************************************************************************)
\* as if the load were awaited: the texture is complete when the call returns
tryLoad_Awaited(n, thrown) == IF n \in thrown THEN "null" ELSE "loaded"

tryLoad(n, thrown) == IF n \in thrown THEN "null" ELSE "loading"

Present(n) == tex[n] \in {"loading", "loaded", "failed"}

LoadTextures(thrown) ==
    /\ pc = "textures"
    /\ IF Required \in thrown
       THEN /\ pc' = "aborted"
            /\ tex' = tex
       ELSE /\ pc' = "compose"
            /\ tex' = [n \in TexNames |->
                         IF n = Required THEN "loading" ELSE tryLoad(n, thrown)]
    /\ last' = [Idle EXCEPT !.kind = "script"]
    /\ UNCHANGED <<win, renderer, camera, sceneVars, clock, rafPending,
                   listener, frameFailed, starVars>>

(***************************************************************************)
(* Scene composition, lines 63-123.                                        *)
(***************************************************************************)
NewEarth == [renderOrder |-> DefaultRenderOrder, rotY |-> 0]

NewNightMesh == [renderOrder |-> NightRenderOrder, opacity |-> DefaultOpacity]

\* as if clouds.renderOrder = 2 were left out
NewClouds_Unordered ==
    [renderOrder |-> DefaultRenderOrder, rotY |-> 0, opacity |-> CloudsOpacity]

NewClouds ==
    [renderOrder |-> CloudsRenderOrder, rotY |-> 0, opacity |-> CloudsOpacity]

NewAtmosphere ==
    [renderOrder |-> AtmosphereRenderOrder, opacity |-> AtmosphereOpacity]

\* if (nightMap) { ... scene.add(nightMesh) }
ComposeNight(map) == IF map THEN NewNightMesh ELSE Null

\* if (cloudsMap) { ... scene.add(clouds) }
ComposeClouds(map) == IF map THEN NewClouds ELSE Null

ComposeScene ==
    /\ pc = "compose"
    /\ pc' = "tick"
    /\ earth' = NewEarth
    /\ nightMesh' = ComposeNight(Present("night"))
    /\ clouds' = ComposeClouds(Present("clouds"))
    /\ atmosphere' = NewAtmosphere
    /\ scene' = scene \o <<"earth">>
                      \o (IF nightMesh' # Null THEN <<"nightMesh">> ELSE <<>>)
                      \o (IF clouds' # Null THEN <<"clouds">> ELSE <<>>)
                      \o <<"atmosphere", "stars">>
    /\ last' = [Idle EXCEPT !.kind = "script"]
    /\ UNCHANGED <<win, renderer, camera, tex, clock, rafPending, listener,
                   frameFailed, starVars>>

(***************************************************************************)
(* tick, lines 128-149.  outcome says whether controls.update or           *)
(* renderer.render throws in this invocation; nothing in tick catches it.  *)
(***************************************************************************)
Outcomes == {"ok", "updateThrows", "renderThrows"}

\* clock.getElapsedTime(): the first call starts the clock and reads 0,
\* later calls read a time no earlier than the last one
ClockReadings(c) ==
    IF c.running THEN {t \in Times : t >= c.elapsedTime} ELSE {0}

\* as if the angle were advanced from its last value: rotation.y += t * 0.08
EarthAngle_Accumulated(m, t) == m.rotY + EarthSpeed * t

\* earth.rotation.y = t * 0.08
EarthAngle(m, t) == EarthSpeed * t

\* if (clouds) clouds.rotation.y = t * 0.11
TickClouds(m, t) == IF m # Null THEN [m EXCEPT !.rotY = CloudsSpeed * t] ELSE m

\* as if the opacity were never written
TickNight_Skipped(m) == m

\* if (nightMesh) { ... opacity = 0.6 }
TickNight(m) == IF m # Null THEN [m EXCEPT !.opacity = NightOpacity] ELSE m

NightWrites(m) == IF m # Null THEN 1 ELSE 0

\* controls.update() is reached in every invocation
Updates(outcome) == 1

\* renderer.render(scene, camera) draws unless an earlier statement threw
Draws(outcome) == IF outcome = "ok" THEN 1 ELSE 0

\* as if tick never registered itself again
RafCalls_Never(outcome) == 0

\* as if requestAnimationFrame(tick) were the first statement of tick
RafCalls_First(outcome) == 1

\* requestAnimationFrame(tick) is reached unless an earlier statement threw
RafCalls(outcome) == IF outcome = "ok" THEN 1 ELSE 0

\* the body of tick, run with `taken` callbacks taken off the frame queue
Tick(t, outcome, taken) ==
    /\ clock' = [running |-> TRUE, elapsedTime |-> t]
    /\ earth' = [earth EXCEPT !.rotY = EarthAngle(earth, t)]
    /\ clouds' = TickClouds(clouds, t)
    /\ nightMesh' = TickNight(nightMesh)
    /\ rafPending' = rafPending - taken + RafCalls(outcome)
    /\ frameFailed' = (frameFailed \/ outcome # "ok")
    /\ last' = [kind |-> "frame", draws |-> Draws(outcome),
                rafCalls |-> RafCalls(outcome), updates |-> Updates(outcome),
                opacityWrites |-> NightWrites(nightMesh),
                threw |-> (outcome # "ok")]
    /\ UNCHANGED <<win, renderer, camera, tex, scene, atmosphere, listener,
                   starVars>>

\* line 150: the script calls tick() itself; a throw ends the script there
StartLoop(outcome) == IF outcome = "ok" THEN "listen" ELSE "aborted"

FirstTick(outcome) ==
    /\ pc = "tick"
    /\ pc' = StartLoop(outcome)
    /\ \E t \in ClockReadings(clock) : Tick(t, outcome, 0)

\* line 153: window.addEventListener("resize", ...), the script's last statement
AddResizeListener ==
    /\ pc = "listen"
    /\ pc' = "idle"
    /\ listener' = TRUE
    /\ last' = [Idle EXCEPT !.kind = "script"]
    /\ UNCHANGED <<win, renderer, camera, tex, sceneVars, clock, rafPending,
                   frameFailed, starVars>>

(***************************************************************************)
(* The event loop: once the script has ended, the host runs the frame      *)
(* callbacks, the resize listener and the texture loads' completions, one  *)
(* at a time and in any order.                                             *)
(***************************************************************************)
ScriptEnded == pc \in {"idle", "aborted"}

Frame(t, outcome) ==
    /\ ScriptEnded
    /\ rafPending > 0
    /\ t \in ClockReadings(clock)
    /\ pc' = pc
    /\ Tick(t, outcome, 1)

\* as if the aspect were height / width
ResizeCamera_Inverted(c, w) == [c EXCEPT !.aspect = Aspect(w.h, w.w)]

\* as if the listener started the loop again
ResizeRaf_Restart(q) == q + 1

\* the resize listener, lines 153-158
ResizeCamera(c, w) == [c EXCEPT !.aspect = Aspect(w.w, w.h)]

ResizeRenderer(r, w) ==
    [r EXCEPT !.width = w.w, !.height = w.h,
              !.pixelRatio = ClampedPixelRatio(w.dpr)]

\* the listener registers no frame callback
ResizeRaf(q) == q

\* the window changes and dispatches a resize event, which runs the listener
\* if one is registered
Resize(w) ==
    /\ ScriptEnded
    /\ win' = w
    /\ IF listener
       THEN /\ camera' = ResizeCamera(camera, w)
            /\ renderer' = ResizeRenderer(renderer, w)
            /\ rafPending' = ResizeRaf(rafPending)
            /\ last' = [Idle EXCEPT !.kind = "resize"]
       ELSE /\ UNCHANGED <<camera, renderer, rafPending>>
            /\ last' = [Idle EXCEPT !.kind = "unheard"]
    /\ UNCHANGED <<pc, tex, sceneVars, clock, listener, frameFailed, starVars>>

\* a texture's image arrives or fails to; the script gave load no callbacks
LoadDone(n, ok) ==
    /\ ScriptEnded
    /\ tex[n] = "loading"
    /\ tex' = [tex EXCEPT ![n] = IF ok THEN "loaded" ELSE "failed"]
    /\ last' = [Idle EXCEPT !.kind = "load"]
    /\ UNCHANGED <<pc, win, renderer, camera, sceneVars, clock, rafPending,
                   listener, frameFailed, starVars>>

Next ==
    \/ \E thrown \in SUBSET Followed : LoadTextures(thrown)
    \/ ComposeScene
    \/ \E outcome \in Outcomes : FirstTick(outcome)
    \/ AddResizeListener
    \/ \E t \in Times, outcome \in Outcomes : Frame(t, outcome)
    \/ \E w \in Windows : Resize(w)
    \/ \E n \in Followed, ok \in BOOLEAN : LoadDone(n, ok)

Spec == Init /\ [][Next]_vars

(***************************************************************************)
(* makeStarField, lines 169-203, run on its own for every small argument.  *)
(* Math.random() is drawn from the values below, which keep sin and cos of *)
(* theta = 2 pi u and phi = acos(2 v - 1) rational: u is a number of       *)
(* quarter turns, v a number of tenths with cos phi a multiple of 1/5.     *)
(***************************************************************************)
\* values of Math.random() for r, as fractions
RandomR == {<<0, 1>>, <<1, 2>>, <<9, 10>>}
\* values of Math.random() for u, in quarters
RandomU == {0, 1, 3}
\* values of Math.random() for v, in tenths
RandomV == {1, 5, 8}

\* cos and sin of 2 pi u, u in quarters
CosTheta(u4) == CASE u4 = 0 -> 1 [] u4 = 1 -> 0 [] u4 = 2 -> -1 [] u4 = 3 -> 0
SinTheta(u4) == CASE u4 = 0 -> 0 [] u4 = 1 -> 1 [] u4 = 2 -> 0 [] u4 = 3 -> -1

\* 5 cos phi and 5 sin phi for phi = acos(2 v - 1), v in tenths; phi is in [0, pi]
CosPhi5(v10) == v10 - 5
SinPhi5(v10) == CHOOSE s \in 0..5 : s * s + CosPhi5(v10) * CosPhi5(v10) = 25

\* storing num / den (den > 0) in the Float32Array: the nearest value the
\* buffer can hold, the even one of two equally near
Fround(num, den) ==
    LET fl == num \div den
        twice == 2 * (num - fl * den)
    IN  IF twice < den THEN fl
        ELSE IF twice > den THEN fl + 1
        ELSE IF fl % 2 = 0 THEN fl ELSE fl + 1

\* const r = radius + Math.random() * depth, as a fraction
DrawR(o, rnd) == <<o.radius * rnd[2] + rnd[1] * o.depth, rnd[2]>>

\* as if x were computed with sin(theta), like y
StarX_LikeY(r, u4, v10) == Fround(r[1] * SinPhi5(v10) * SinTheta(u4), r[2] * 5)

\* the three coordinates of lines 181-183, as stored by lines 185-187
StarX(r, u4, v10) == Fround(r[1] * SinPhi5(v10) * CosTheta(u4), r[2] * 5)
StarY(r, u4, v10) == Fround(r[1] * SinPhi5(v10) * SinTheta(u4), r[2] * 5)
StarZ(r, u4, v10) == Fround(r[1] * CosPhi5(v10), r[2] * 5)

\* new Float32Array(count * 3): zero-filled
NewPositions(count) == [k \in 1..(count * 3) |-> 0]

\* for (let i = 0; i < count; i++)
LoopRuns(k, count) == k < count

StarInit ==
    /\ pc = "makeStarField"
    /\ MainInit({[w |-> 1, h |-> 1, dpr |-> <<1, 1>>]})
    /\ opts \in [count : 1..MaxCount, radius : 0..MaxRadius, depth : 0..MaxDepth]
    /\ positions = NewPositions(opts.count)
    /\ i = 0
    /\ written = {}

\* one pass of the loop body
StarPoint(rnd, u4, v10) ==
    /\ pc = "makeStarField"
    /\ LoopRuns(i, opts.count)
    /\ LET r == DrawR(opts, rnd)
       IN  positions' = [positions EXCEPT ![i * 3 + 1] = StarX(r, u4, v10),
                                          ![i * 3 + 2] = StarY(r, u4, v10),
                                          ![i * 3 + 3] = StarZ(r, u4, v10)]
    /\ written' = written \cup {i * 3 + 1, i * 3 + 2, i * 3 + 3}
    /\ i' = i + 1
    /\ UNCHANGED <<pc, win, renderer, camera, tex, sceneVars, clock,
                   rafPending, listener, frameFailed, last, opts>>

\* the loop is left and the Points object returned
StarReturn ==
    /\ pc = "makeStarField"
    /\ ~LoopRuns(i, opts.count)
    /\ pc' = "made"
    /\ UNCHANGED <<win, renderer, camera, tex, sceneVars, clock, rafPending,
                   listener, frameFailed, last, starVars>>

StarNext ==
    \/ \E rnd \in RandomR, u4 \in RandomU, v10 \in RandomV : StarPoint(rnd, u4, v10)
    \/ StarReturn

SpecStars == StarInit /\ [][StarNext]_vars

(***************************************************************************)
(* The loop under the host's scheduling: the script runs to its end, and a *)
(* registered frame callback is eventually run.                            *)
(***************************************************************************)
Script ==
    \/ \E thrown \in SUBSET Followed : LoadTextures(thrown)
    \/ ComposeScene
    \/ \E outcome \in Outcomes : FirstTick(outcome)
    \/ AddResizeListener

AnyFrame == \E t \in Times, outcome \in Outcomes : Frame(t, outcome)

LiveSpec == Spec /\ WF_vars(Script) /\ WF_vars(AnyFrame)

(***************************************************************************)
(* The claims.                                                             *)
(***************************************************************************)
Composed == earth # Null

\* a fraction p equals, or is at most, a fraction q
RatioEq(p, q) == p[1] * q[2] = q[1] * p[2]
RatioLeq(p, q) == p[1] * q[2] <= q[1] * p[2]

\* C1: when the load of an optional texture fails, its mesh is absent: a
\* failed clouds texture leaves clouds null and a failed night texture leaves
\* nightMesh null.
C1_FailedLoadOmitsMesh ==
    /\ tex["clouds"] = "failed" => clouds = Null
    /\ tex["night"] = "failed" => nightMesh = Null

\* the layers present, from the innermost out
Layers ==
    <<earth>> \o (IF nightMesh # Null THEN <<nightMesh>> ELSE <<>>)
              \o (IF clouds # Null THEN <<clouds>> ELSE <<>>)
              \o <<atmosphere>>

\* C2: in every state after scene composition the render orders of the layers
\* present increase strictly from the Earth (0) through the night lights (1)
\* and the clouds (2) to the atmosphere (3), whatever frames, resize events
\* and load completions have run.
C2_RenderOrder ==
    Composed =>
        /\ earth.renderOrder = 0
        /\ nightMesh # Null => nightMesh.renderOrder = 1
        /\ clouds # Null => clouds.renderOrder = 2
        /\ atmosphere.renderOrder = 3
        /\ \A a, b \in 1..Len(Layers) :
               a < b => Layers[a].renderOrder < Layers[b].renderOrder

C2_Witness ==
    /\ nightMesh # Null
    /\ clouds # Null
    /\ clock.elapsedTime > 0
    /\ renderer.width # renderer.height
    /\ tex["night"] = "loaded"
    /\ last.kind = "load"

\* C3: after the resize listener has run for a window of width w, height h and
\* device pixel ratio d, the camera's aspect is exactly w / h, the renderer's
\* pixel ratio is the smaller of d and 2, and its size is (w, h).
C3_ResizeApplied ==
    last.kind = "resize" =>
        /\ camera.aspect[1] * win.h = camera.aspect[2] * win.w
        /\ RatioLeq(renderer.pixelRatio, win.dpr)
        /\ RatioLeq(renderer.pixelRatio, <<2, 1>>)
        /\ RatioEq(renderer.pixelRatio, win.dpr)
               \/ RatioEq(renderer.pixelRatio, <<2, 1>>)
        /\ renderer.width = win.w
        /\ renderer.height = win.h

C3_Witness ==
    /\ last.kind = "resize"
    /\ win = [w |-> 1, h |-> 2, dpr |-> <<3, 1>>]
    /\ camera.aspect = <<1, 2>>
    /\ renderer.pixelRatio = <<2, 1>>
    /\ clock.elapsedTime > 0

\* C4: once a frame has run, the Earth's angle is 0.08 times the time that the
\* last frame read from the clock (8 hundredths per second), however many
\* frames and resize events came before: 0 at t = 0 and 0.8 at t = 10.
C4_EarthAngle ==
    clock.running => earth.rotY = 8 * clock.elapsedTime

C4_Witness ==
    /\ last.kind = "frame"
    /\ clock.elapsedTime = 10
    /\ earth.rotY = 80

\* the square of the distance from the origin of point k of the buffer
Dist2(k) ==
    positions[k * 3 + 1] * positions[k * 3 + 1]
        + positions[k * 3 + 2] * positions[k * 3 + 2]
        + positions[k * 3 + 3] * positions[k * 3 + 3]

FilledBuffer ==
    /\ Len(positions) = 3 * opts.count
    /\ written = 1..(3 * opts.count)
    /\ i = opts.count

C6_LoopNeverEnds ==
    /\ [](last.kind = "frame" /\ ~last.threw =>
              last.draws = 1 /\ last.rafCalls = 1 /\ rafPending = 1)
    /\ \/ []<>(last.kind = "frame" /\ last.draws = 1)
       \/ <>(frameFailed \/ pc = "aborted")

C6_Witness ==
    /\ last.kind = "frame"
    /\ ~last.threw
    /\ last.draws = 1
    /\ rafPending = 1
    /\ clock.elapsedTime = 10
    /\ pc = "idle"

\* C7 as stated: once a frame has thrown, no callback is pending, and resize
\* events are still handled.
C7_HaltKeepsResize ==
    frameFailed => rafPending = 0 /\ listener

\* C7 as amended: once a frame has thrown, no callback is pending and no frame
\* runs again; resize events are still handled if the frame that threw was run
\* from the frame queue, and are never handled if it was the first frame, which
\* the script calls before it registers the resize listener.
C7_HaltForGood ==
    /\ [](frameFailed => rafPending = 0)
    /\ [](frameFailed => (listener <=> pc = "idle"))
    /\ [](frameFailed /\ last.kind = "unheard" => pc = "aborted")
    /\ [][frameFailed => last'.kind # "frame"]_vars
    /\ [][frameFailed /\ listener /\ win' # win =>
              /\ last'.kind = "resize"
              /\ renderer'.width = win'.w
              /\ renderer'.height = win'.h]_vars

C7_Witness ==
    /\ frameFailed
    /\ pc = "idle"
    /\ last.kind = "resize"
    /\ clock.elapsedTime > 0

\* C8: once a frame has run, the night overlay, if present, has opacity 0.6
\* (60 hundredths), each frame having written it once before drawing; a frame
\* writes no opacity if the overlay is absent.
C8_NightOpacity ==
    /\ clock.running /\ nightMesh # Null => nightMesh.opacity = 60
    /\ last.kind = "frame" =>
           last.opacityWrites = IF nightMesh # Null THEN 1 ELSE 0

C8_Witness ==
    /\ last.kind = "frame"
    /\ last.draws = 1
    /\ nightMesh # Null
    /\ clock.elapsedTime = 10

\* C9: no texture load has completed while the script is running, the script
\* has drawn the first frame when tick returns to it, and a load's completion
\* changes neither the scene's children nor its meshes.
C9_LoadsNotAwaited ==
    /\ [](~ScriptEnded => \A n \in TexNames : tex[n] \in {"none", "null", "loading"})
    /\ [](pc = "listen" => last.kind = "frame" /\ last.draws = 1)
    /\ [][tex' # tex /\ ScriptEnded => UNCHANGED sceneVars]_vars

C9_Witness ==
    /\ last.kind = "frame"
    /\ last.draws = 1
    /\ tex["day"] = "loading"
    /\ tex["night"] = "loaded"
    /\ tex["clouds"] = "failed"
    /\ clock.elapsedTime > 0

\* C10: at most one frame callback is pending at any time, and a resize event
\* registers no callback, draws nothing and leaves the rotation angles alone.
C10_SingleLoop ==
    /\ [](rafPending <= 1)
    /\ [](last.kind \in {"resize", "unheard"} =>
              last.draws = 0 /\ last.rafCalls = 0)
    /\ [][last'.kind \in {"resize", "unheard"} =>
              /\ rafPending' = rafPending
              /\ earth' = earth
              /\ clouds' = clouds]_vars

C10_Witness ==
    /\ last.kind = "resize"
    /\ rafPending = 1
    /\ clock.elapsedTime > 0
    /\ renderer.width # renderer.height

====
